---- MODULE Spec2Model ----
(***************************************************************************)
(* Medical appointment booking backend (src/Backend/main.py): the session  *)
(* store, the booking ledger, the slot finder and the HTTP handlers chat,  *)
(* select_slot, get_booking and reset_session.                             *)
(*                                                                         *)
(* Conventions of the model                                                *)
(*   - Python None is the value None; a str is a TLA+ string; a value is   *)
(*     truthy when it is neither None nor "".                              *)
(*   - a dict is a function whose DOMAIN is its key set, so that           *)
(*     `"end_time" in slot` is "end_time" \in DOMAIN slot.                 *)
(*   - a start time "HH:MM" is the number HH*100+MM, and                   *)
(*     int(t.split(":")[0]) is t \div 100.  An end time is never parsed by *)
(*     the program and stays a string.                                     *)
(*   - a dict iterated in insertion order (the days of a schedule) is the  *)
(*     sequence of its items.                                              *)
(*   - uuid.uuid4() yields a fresh value: the counter uuid.                *)
(*   - timestamps and the texts written by the language model are left     *)
(*     out: no handler branches on them.                                   *)
(*   - inflight holds the requests the server has accepted and not yet     *)
(*     answered, where a specification lets requests arrive together; it   *)
(*     is empty elsewhere.                                                 *)
(***************************************************************************)
EXTENDS Integers, Sequences, FiniteSets, TLC

VARIABLES SCHEDULE_DATA, sessions, bookings, uuid, request, response, inflight

vars == <<SCHEDULE_DATA, sessions, bookings, uuid, request, response, inflight>>

None == "<None>"

Truthy(v) == v # None /\ v # ""

\* selected_slot None and a dict without keys are both falsy: the function
\* with the empty domain
NoSlot == << >>

(* dict.get(k): the value, or None for a missing key *)
Get(d, k) == IF k \in DOMAIN d THEN d[k] ELSE None

(***************************************************************************)
(* Bounds of the model                                                     *)
(***************************************************************************)
\* chat requests are accepted while the stored messages of all sessions
\* together number at most MaxMessages
MaxMessages == 4
\* chat requests create at most MaxSessions sessions
MaxSessions == 1

(***************************************************************************)
(* Data                                                                    *)
(***************************************************************************)
GREETING == "greeting"
SELECTING_TYPE == "selecting_appointment_type"
UNDERSTANDING == "understanding_needs"
SHOWING_SLOTS == "showing_slots"
COLLECTING_INFO == "collecting_info"
CONFIRMING == "confirming"
COMPLETE == "complete"

ConversationPhase ==
    {GREETING, SELECTING_TYPE, UNDERSTANDING, SHOWING_SLOTS, COLLECTING_INFO,
     CONFIRMING, COMPLETE}

APPOINTMENT_TYPES ==
    [general_consultation |-> [name |-> "General Consultation", duration |-> 30],
     specialist_consultation |-> [name |-> "Specialist Consultation", duration |-> 60],
     physical_exam |-> [name |-> "Physical Exam", duration |-> 45],
     followup |-> [name |-> "Follow-up", duration |-> 15]]

PatientInfo == [name |-> None, email |-> None, phone |-> None]

BookingDetails ==
    [appointment_type |-> None, preferred_date |-> None, preferred_time |-> None,
     reason |-> None, selected_slot |-> NoSlot]

NoneCollected ==
    [appointment_type |-> FALSE, reason |-> FALSE, name |-> FALSE, email |-> FALSE,
     phone |-> FALSE, date |-> FALSE, time |-> FALSE]

ConversationState(sid) ==
    [session_id |-> sid, phase |-> GREETING, messages |-> <<>>,
     patient_info |-> PatientInfo, booking_details |-> BookingDetails,
     collected_info |-> NoneCollected]

(***************************************************************************)
(* Schedule tables (mock_schedule.json is data read at start-up): a table  *)
(* maps a type code to its duration and to the sequence of its days, each  *)
(* day with a date and a sequence of slots.                                *)
(***************************************************************************)
Slot(s, e, a) == [start_time |-> s, end_time |-> e, available |-> a]

Day(d, dt, sl) == [day |-> d, date |-> dt, slots |-> sl]

\* days out of chronological order, an unavailable slot, all three bands
SmallTable ==
    [general_consultation |->
        [duration_minutes |-> 30,
         schedule |-> <<Day("tuesday", "2025-11-04",
                            <<Slot(1400, "14:30", TRUE), Slot(900, "09:30", TRUE)>>),
                        Day("monday", "2025-11-03",
                            <<Slot(1700, "17:30", TRUE), Slot(1130, "12:00", FALSE)>>)>>],
     followup |->
        [duration_minutes |-> 15,
         schedule |-> <<Day("monday", "2025-11-03", <<Slot(1200, "12:15", TRUE)>>)>>]]

\* more than ten available slots, hours on both sides of every band boundary
WideTable ==
    [general_consultation |->
        [duration_minutes |-> 30,
         schedule |-> <<Day("wednesday", "2025-11-05",
                            <<Slot(1630, "17:00", TRUE), Slot(800, "08:30", TRUE),
                              Slot(1200, "12:30", TRUE), Slot(1700, "17:30", TRUE),
                              Slot(1159, "12:29", TRUE), Slot(1000, "10:30", FALSE),
                              Slot(1800, "18:30", TRUE)>>),
                        Day("monday", "2025-11-03",
                            <<Slot(900, "09:30", TRUE), Slot(930, "10:00", TRUE),
                              Slot(1300, "13:30", TRUE), Slot(1330, "14:00", TRUE),
                              Slot(1900, "19:30", TRUE), Slot(1930, "20:00", TRUE)>>),
                        Day("tuesday", "2025-11-04",
                            <<Slot(0, "00:30", TRUE), Slot(2330, "23:59", TRUE)>>)>>],
     physical_exam |->
        [duration_minutes |-> 45,
         schedule |-> <<Day("friday", "2025-11-07",
                            <<Slot(1100, "11:45", FALSE), Slot(1500, "15:45", TRUE)>>),
                        Day("saturday", "2025-11-07",
                            <<Slot(1015, "11:00", TRUE)>>)>>],
     specialist_consultation |-> [duration_minutes |-> 60, schedule |-> <<>>]]

\* no type has a slot
EmptyTable == [followup |-> [duration_minutes |-> 15, schedule |-> <<>>]]

Tables == {SmallTable, WideTable, EmptyTable}

(***************************************************************************)
(* AgentTools.get_available_slots                                          *)
(***************************************************************************)
\* str.lower() on the time-of-day tokens of the model
Lower(s) ==
    CASE s = "Morning" -> "morning"
      [] s = "MORNING" -> "morning"
      [] s = "AM" -> "am"
      [] s = "PM" -> "pm"
      [] s = "Afternoon" -> "afternoon"
      [] s = "Evening" -> "evening"
      [] OTHER -> s

HourOf(start_time) == start_time \div 100

\* mutant: the morning band lets the hour 12 through
SkipByTimeLate(time_preference, hour) ==
    IF Lower(time_preference) \in {"morning", "am"} /\ hour > 12 THEN TRUE
    ELSE IF Lower(time_preference) \in {"afternoon", "pm"} /\ (hour < 12 \/ hour >= 17)
         THEN TRUE
    ELSE IF Lower(time_preference) = "evening" /\ hour < 17 THEN TRUE
    ELSE FALSE

\* the three `continue` branches of the time preference filter
SkipByTime(time_preference, hour) ==
    IF Lower(time_preference) \in {"morning", "am"} /\ hour >= 12 THEN TRUE
    ELSE IF Lower(time_preference) \in {"afternoon", "pm"} /\ (hour < 12 \/ hour >= 17)
         THEN TRUE
    ELSE IF Lower(time_preference) = "evening" /\ hour < 17 THEN TRUE
    ELSE FALSE

SlotInfo(appointment_type, day_data, slot) ==
    [day |-> day_data.day, date |-> day_data.date, start_time |-> slot.start_time,
     end_time |-> slot.end_time,
     duration |-> SCHEDULE_DATA[appointment_type].duration_minutes]

\* the inner loop over one day's slots, appending to acc
RECURSIVE DaySlots(_, _, _, _, _)
DaySlots(appointment_type, day_data, time_preference, i, acc) ==
    IF i > Len(day_data.slots) THEN acc
    ELSE LET slot == day_data.slots[i]
             keep == /\ slot.available
                     /\ ~(Truthy(time_preference)
                          /\ SkipByTime(time_preference, HourOf(slot.start_time)))
         IN DaySlots(appointment_type, day_data, time_preference, i + 1,
                     IF keep THEN Append(acc, SlotInfo(appointment_type, day_data, slot))
                     ELSE acc)

\* mutant: the date filter skips no day
SkipNoDay(date, day_data) == FALSE

\* lines 142-143: the day is skipped when a date is given and is not its date
SkipDay(date, day_data) == Truthy(date) /\ day_data.date # date

\* the outer loop over the days of the type's schedule
RECURSIVE AllSlots(_, _, _, _, _)
AllSlots(appointment_type, type_schedule, date, time_preference, i) ==
    IF i > Len(type_schedule) THEN <<>>
    ELSE LET day_data == type_schedule[i]
             here == IF SkipDay(date, day_data) THEN <<>>
                     ELSE DaySlots(appointment_type, day_data, time_preference, 1, <<>>)
         IN here \o AllSlots(appointment_type, type_schedule, date, time_preference, i + 1)

SlotCap == 10

\* mutant: a slot the ledger holds a booking for is not listed
AvailableNotBooked(appointment_type, date, time_preference) ==
    LET type_schedule == IF appointment_type \in DOMAIN SCHEDULE_DATA
                         THEN SCHEDULE_DATA[appointment_type].schedule
                         ELSE <<>>
        Free(s) == \A id \in DOMAIN bookings :
                       ~(/\ bookings[id].data.date = s.date
                         /\ bookings[id].data.start_time = s.start_time)
        available_slots == SelectSeq(AllSlots(appointment_type, type_schedule, date,
                                              time_preference, 1), Free)
    IN SubSeq(available_slots, 1,
              IF Len(available_slots) < SlotCap THEN Len(available_slots) ELSE SlotCap)

get_available_slots(appointment_type, date, time_preference) ==
    LET type_schedule == IF appointment_type \in DOMAIN SCHEDULE_DATA
                         THEN SCHEDULE_DATA[appointment_type].schedule
                         ELSE <<>>
        available_slots == AllSlots(appointment_type, type_schedule, date,
                                    time_preference, 1)
    IN SubSeq(available_slots, 1,
              IF Len(available_slots) < SlotCap THEN Len(available_slots) ELSE SlotCap)

(***************************************************************************)
(* The slot finder on its own: the table and the arguments range over the  *)
(* sets below.                                                             *)
(***************************************************************************)
TypeCodes ==
    {"general_consultation", "followup", "physical_exam", "specialist_consultation",
     "dental", None}

Dates == {None, "", "2025-11-03", "2025-11-04", "2025-11-05", "2025-11-07", "2025-12-25"}

TimeTokens ==
    {None, "", "morning", "Morning", "MORNING", "am", "AM", "afternoon", "Afternoon",
     "pm", "PM", "evening", "Evening", "night"}

InitSlots ==
    /\ SCHEDULE_DATA \in Tables
    /\ sessions = << >>
    /\ bookings = << >>
    /\ uuid = 1
    /\ request = [op |-> "start"]
    /\ response = [status |-> "start"]
    /\ inflight = << >>

FindSlots ==
    \E t \in TypeCodes, d \in Dates, p \in TimeTokens :
        /\ request' = [op |-> "get_available_slots", appointment_type |-> t, date |-> d,
                       time_preference |-> p]
        /\ response' = [status |-> "ok", slots |-> get_available_slots(t, d, p)]
        /\ UNCHANGED <<SCHEDULE_DATA, sessions, bookings, uuid, inflight>>

NextSlots == FindSlots

SpecSlots == InitSlots /\ [][NextSlots]_vars

(***************************************************************************)
(* Inputs of the handlers                                                  *)
(***************************************************************************)
SessionIds == {"s1", "s2"}

Messages == {"hello", "Book another"}

\* str.lower() on the message texts of the model
LowerText(m) == IF m = "Book another" THEN "book another" ELSE m

\* `word in text` on the lower-cased message texts of the model
Contains(text, word) == text = "book another" /\ word \in {"book", "another"}

RestartWords == {"new", "another", "book", "schedule"}

Reasons == {"headache"}
ExtractedTypes == {"general_consultation"}
Names == {"Ann", "Bob"}
Emails == {"ann@x.org", "bob@x.org"}
Phones == {"555-0001", "555-0002"}
ExtractedDates == {"2025-11-04"}
ExtractedTimes == {"afternoon"}

\* specific_slot as the oracle may give it: a table slot, a slot the table
\* does not hold, and a slot that already carries an end time
SpecificSlots ==
    {[date |-> "2025-11-04", start_time |-> 900],
     [date |-> "2025-11-04", start_time |-> 1000],
     [date |-> "2025-11-04", start_time |-> 900, end_time |-> "09:30"]}

SlotSelections == {"1", "abc"}

NextActions == {"show_slots", "ask_reason"}

NoExtracted ==
    [reason |-> None, appointment_type |-> None, name |-> None, email |-> None,
     phone |-> None, date |-> None, time_preference |-> None,
     specific_slot |-> NoSlot, slot_selection |-> None]

With(e, k, v) == [e EXCEPT ![k] = v]

Singles ==
    {With(NoExtracted, "reason", v) : v \in Reasons} \cup
    {With(NoExtracted, "appointment_type", v) : v \in ExtractedTypes} \cup
    {With(NoExtracted, "name", v) : v \in Names} \cup
    {With(NoExtracted, "email", v) : v \in Emails} \cup
    {With(NoExtracted, "phone", v) : v \in Phones} \cup
    {With(NoExtracted, "date", v) : v \in ExtractedDates} \cup
    {With(NoExtracted, "time_preference", v) : v \in ExtractedTimes} \cup
    {With(NoExtracted, "specific_slot", v) : v \in SpecificSlots} \cup
    {With(NoExtracted, "slot_selection", v) : v \in SlotSelections}

\* a message that brings several fields at once: the three contact fields;
\* a type with an ordinal choice; everything a booking needs
Composites ==
    {[NoExtracted EXCEPT !.name = "Ann", !.email = "ann@x.org", !.phone = "555-0001"],
     [NoExtracted EXCEPT !.appointment_type = "general_consultation",
                         !.slot_selection = "1"],
     [NoExtracted EXCEPT !.reason = "headache",
                         !.appointment_type = "general_consultation",
                         !.name = "Ann", !.email = "ann@x.org", !.phone = "555-0001",
                         !.specific_slot = [date |-> "2025-11-04", start_time |-> 900]]}

Extracted == {NoExtracted} \cup Singles \cup Composites

OracleReplies ==
    {[parses |-> TRUE, extracted |-> e, next_action |-> a, ready_to_book |-> r] :
        e \in Extracted, a \in NextActions, r \in BOOLEAN}
    \cup {[parses |-> FALSE]}

\* slots a client may post to select-slot: a slot as the slot finder lists
\* it, one with an empty end time, one without a day, one without a date
PostedSlots ==
    {[day |-> "tuesday", date |-> "2025-11-04", start_time |-> 1400,
      end_time |-> "14:30", duration |-> 30],
     [day |-> "tuesday", date |-> "2025-11-04", start_time |-> 1400, end_time |-> ""],
     [date |-> "2025-11-04", start_time |-> 1400, end_time |-> "14:30"],
     [day |-> "tuesday", start_time |-> 1400, end_time |-> "14:30"]}

BookingIds == {1, 2}

(***************************************************************************)
(* IntentAgent.analyze_intent: the parsed reply, or the default result     *)
(***************************************************************************)
\* mutant: the default result signals readiness and asks for the slots
FallbackReady(reply) ==
    IF reply.parses
    THEN [extracted |-> reply.extracted, next_action |-> reply.next_action,
          ready_to_book |-> reply.ready_to_book]
    ELSE [extracted |-> NoExtracted, next_action |-> "show_slots",
          ready_to_book |-> TRUE]

analyze_intent(reply) ==
    IF reply.parses
    THEN [extracted |-> reply.extracted, next_action |-> reply.next_action,
          ready_to_book |-> reply.ready_to_book]
    ELSE [extracted |-> NoExtracted, next_action |-> "ask_reason",
          ready_to_book |-> FALSE]

(***************************************************************************)
(* AgentTools.book_appointment: the ledger with the new booking            *)
(***************************************************************************)
\* mutant: the ledger is replaced by one that holds the new booking only
BookIntoNewLedger(ledger, id, booking_data) ==
    [k \in {id} |->
        [booking_id |-> id, confirmation_code |-> id + 1, status |-> "confirmed",
         data |-> booking_data]]

book_appointment(ledger, id, booking_data) ==
    [k \in DOMAIN ledger \cup {id} |->
        IF k = id
        THEN [booking_id |-> id, confirmation_code |-> id + 1, status |-> "confirmed",
              data |-> booking_data]
        ELSE ledger[k]]

(***************************************************************************)
(* chat, step by step                                                      *)
(***************************************************************************)
HasRestartWord(message) ==
    \E word \in RestartWords : Contains(LowerText(message), word)

\* mutant: any message restarts a complete session
RestartOnAnyMessage(state, message) == state.phase = COMPLETE

\* lines 428-429: the restart check
RestartRequested(state, message) ==
    state.phase = COMPLETE /\ HasRestartWord(message)

\* mutant: the restart keeps the patient info
RestartKeepsPatient(state) ==
    [state EXCEPT !.phase = GREETING, !.booking_details = BookingDetails,
                  !.collected_info = NoneCollected]

\* lines 431-442
RestartSession(state) ==
    [state EXCEPT !.phase = GREETING, !.patient_info = PatientInfo,
                  !.booking_details = BookingDetails, !.collected_info = NoneCollected]

\* mutant: the message is put in front of the history
AddMessageFront(state, role, content) ==
    [state EXCEPT !.messages = <<[role |-> role, content |-> content]>> \o @]

AddMessage(state, role, content) ==
    [state EXCEPT !.messages = Append(@, [role |-> role, content |-> content])]

\* mutant: an extracted reason replaces the stored one and sets the phase
MergeReasonOverwrite(state, extracted) ==
    IF Truthy(extracted.reason)
    THEN [state EXCEPT !.booking_details.reason = extracted.reason,
                       !.collected_info.reason = TRUE,
                       !.phase = SELECTING_TYPE]
    ELSE state

MergeReason(state, extracted) ==
    IF Truthy(extracted.reason) /\ ~Truthy(state.booking_details.reason)
    THEN [state EXCEPT !.booking_details.reason = extracted.reason,
                       !.collected_info.reason = TRUE,
                       !.phase = SELECTING_TYPE]
    ELSE state

MergeType(state, extracted) ==
    IF Truthy(extracted.appointment_type)
    THEN [state EXCEPT !.booking_details.appointment_type = extracted.appointment_type,
                       !.collected_info.appointment_type = TRUE,
                       !.phase = UNDERSTANDING]
    ELSE state

\* mutant: an extracted name replaces the stored one
MergeNameOverwrite(state, extracted) ==
    IF Truthy(extracted.name)
    THEN [state EXCEPT !.patient_info.name = extracted.name,
                       !.collected_info.name = TRUE]
    ELSE state

MergeName(state, extracted) ==
    IF Truthy(extracted.name) /\ ~Truthy(state.patient_info.name)
    THEN [state EXCEPT !.patient_info.name = extracted.name,
                       !.collected_info.name = TRUE]
    ELSE state

MergePhone(state, extracted) ==
    IF Truthy(extracted.phone) /\ ~Truthy(state.patient_info.phone)
    THEN [state EXCEPT !.patient_info.phone = extracted.phone,
                       !.collected_info.phone = TRUE]
    ELSE state

MergeEmail(state, extracted) ==
    IF Truthy(extracted.email) /\ ~Truthy(state.patient_info.email)
    THEN [state EXCEPT !.patient_info.email = extracted.email,
                       !.collected_info.email = TRUE]
    ELSE state

MergeDate(state, extracted) ==
    IF Truthy(extracted.date)
    THEN [state EXCEPT !.booking_details.preferred_date = extracted.date,
                       !.collected_info.date = TRUE]
    ELSE state

MergeTime(state, extracted) ==
    IF Truthy(extracted.time_preference)
    THEN [state EXCEPT !.booking_details.preferred_time = extracted.time_preference,
                       !.collected_info.time = TRUE,
                       !.phase = SHOWING_SLOTS]
    ELSE state

\* mutant: the first listed slot of the date, whatever its start time
RECURSIVE FindMatchingByDate(_, _, _)
FindMatchingByDate(available, slot, i) ==
    IF i > Len(available) THEN slot
    ELSE IF available[i].date = Get(slot, "date") THEN available[i]
         ELSE FindMatchingByDate(available, slot, i + 1)

\* lines 500-504: the first listed slot with the date and start time asked
\* for, or the slot as extracted
RECURSIVE FindMatching(_, _, _)
FindMatching(available, slot, i) ==
    IF i > Len(available) THEN slot
    ELSE IF /\ available[i].date = Get(slot, "date")
            /\ "start_time" \in DOMAIN slot
            /\ available[i].start_time = slot.start_time
         THEN available[i]
         ELSE FindMatching(available, slot, i + 1)

\* mutant: a slot without end time is stored only when the list holds it
SelectSpecificOnlyMatched(state, specific_slot) ==
    LET slot == IF /\ "end_time" \notin DOMAIN specific_slot
                   /\ Truthy(state.booking_details.appointment_type)
                THEN FindMatching(
                         get_available_slots(state.booking_details.appointment_type,
                                             Get(specific_slot, "date"), None),
                         specific_slot, 1)
                ELSE specific_slot
    IN IF "end_time" \in DOMAIN slot
       THEN [state EXCEPT !.booking_details.selected_slot = slot,
                          !.phase = COLLECTING_INFO]
       ELSE state

\* lines 490-506
SelectSpecificSlot(state, specific_slot) ==
    LET slot == IF /\ "end_time" \notin DOMAIN specific_slot
                   /\ Truthy(state.booking_details.appointment_type)
                THEN FindMatching(
                         get_available_slots(state.booking_details.appointment_type,
                                             Get(specific_slot, "date"), None),
                         specific_slot, 1)
                ELSE specific_slot
    IN [state EXCEPT !.booking_details.selected_slot = slot,
                     !.phase = COLLECTING_INFO]

\* int() on the slot_selection texts of the model: ValueError for "abc"
IsInt(text) == text \in {"0", "1", "2", "9"}

IntOf(text) == CASE text = "0" -> 0 [] text = "1" -> 1 [] text = "2" -> 2 [] text = "9" -> 9

\* mutant: a number past the end of the list selects the last slot
SelectSlotClamped(state, slot_num) ==
    LET available == get_available_slots(state.booking_details.appointment_type,
                                         state.booking_details.preferred_date,
                                         state.booking_details.preferred_time)
        slot_idx == IntOf(slot_num) - 1
    IN IF IsInt(slot_num) /\ 0 =< slot_idx /\ Len(available) > 0
       THEN [state EXCEPT !.booking_details.selected_slot =
                              available[IF slot_idx < Len(available) THEN slot_idx + 1
                                        ELSE Len(available)],
                          !.phase = COLLECTING_INFO]
       ELSE state

\* mutant: the number is taken as a 0-based index
SelectSlotZeroBased(state, slot_num) ==
    LET available == get_available_slots(state.booking_details.appointment_type,
                                         state.booking_details.preferred_date,
                                         state.booking_details.preferred_time)
        slot_idx == IntOf(slot_num)
    IN IF IsInt(slot_num) /\ 0 =< slot_idx /\ slot_idx < Len(available)
       THEN [state EXCEPT !.booking_details.selected_slot = available[slot_idx + 1],
                          !.phase = COLLECTING_INFO]
       ELSE state

\* lines 509-522
SelectSlotByNumber(state, slot_num) ==
    LET available == get_available_slots(state.booking_details.appointment_type,
                                         state.booking_details.preferred_date,
                                         state.booking_details.preferred_time)
        slot_idx == IntOf(slot_num) - 1
    IN IF IsInt(slot_num) /\ 0 =< slot_idx /\ slot_idx < Len(available)
       THEN [state EXCEPT !.booking_details.selected_slot = available[slot_idx + 1],
                          !.phase = COLLECTING_INFO]
       ELSE state

HandleSlot(state, extracted) ==
    IF DOMAIN extracted.specific_slot # {}
    THEN SelectSpecificSlot(state, extracted.specific_slot)
    ELSE IF /\ Truthy(extracted.slot_selection)
            /\ Truthy(state.booking_details.appointment_type)
         THEN SelectSlotByNumber(state, extracted.slot_selection)
         ELSE state

\* lines 455-522: the extracted data merged into the state
MergeExtracted(state, extracted) ==
    HandleSlot(
      MergeTime(
        MergeDate(
          MergeEmail(
            MergePhone(
              MergeName(
                MergeType(
                  MergeReason(state, extracted),
                  extracted), extracted), extracted), extracted), extracted), extracted),
      extracted)

\* lines 524-533
SlotsToShow(state, next_action) ==
    IF next_action = "show_slots" /\ Truthy(state.booking_details.appointment_type)
    THEN get_available_slots(state.booking_details.appointment_type,
                             state.booking_details.preferred_date,
                             state.booking_details.preferred_time)
    ELSE <<>>

\* the calls of get_available_slots one chat request makes (lines 494, 511
\* and 529); the appointment type is the one the merge has left
SlotLookups(state, intent_analysis) ==
    LET extracted == intent_analysis.extracted
        has_type == Truthy(state.booking_details.appointment_type)
    IN (IF DOMAIN extracted.specific_slot # {}
        THEN IF "end_time" \notin DOMAIN extracted.specific_slot /\ has_type
             THEN 1 ELSE 0
        ELSE IF Truthy(extracted.slot_selection) /\ has_type THEN 1 ELSE 0)
       + (IF intent_analysis.next_action = "show_slots" /\ has_type THEN 1 ELSE 0)

\* lines 537-544
CanBook(state, intent_analysis) ==
    /\ intent_analysis.ready_to_book
    /\ Truthy(state.patient_info.name)
    /\ Truthy(state.patient_info.email)
    /\ Truthy(state.patient_info.phone)
    /\ DOMAIN state.booking_details.selected_slot # {}
    /\ "end_time" \in DOMAIN state.booking_details.selected_slot

\* APPOINTMENT_TYPES.get(code, {}).get(key)
TypeInfo(code, key) ==
    IF code \in DOMAIN APPOINTMENT_TYPES THEN APPOINTMENT_TYPES[code][key] ELSE None

\* lines 550-563; evaluated only for a slot with date, start_time and end_time
BookingData(state) ==
    [appointment_type |-> state.booking_details.appointment_type,
     appointment_type_name |-> TypeInfo(state.booking_details.appointment_type, "name"),
     duration |-> TypeInfo(state.booking_details.appointment_type, "duration"),
     date |-> state.booking_details.selected_slot.date,
     start_time |-> state.booking_details.selected_slot.start_time,
     end_time |-> state.booking_details.selected_slot.end_time,
     patient |-> state.patient_info,
     reason |-> IF Truthy(state.booking_details.reason)
                THEN state.booking_details.reason ELSE "General consultation"]

StoredMessages ==
    LET RECURSIVE Sum(_)
        Sum(S) == IF S = {} THEN 0
                  ELSE LET x == CHOOSE y \in S : TRUE
                       IN Len(sessions[x].messages) + Sum(S \ {x})
    IN Sum(DOMAIN sessions)

Put(store, key, value) ==
    [k \in DOMAIN store \cup {key} |-> IF k = key THEN value ELSE store[k]]

\* mutant: the handler works on a copy of the session taken before any
\* request in flight was handled
MergedStale(sid, message, reply) ==
    MergeExtracted(AddMessage(ConversationState(sid), "user", message),
                   analyze_intent(reply).extracted)

\* the state of the session after the restart check, the user message and
\* the merge of the oracle's result
Merged(sid, message, reply) ==
    LET created == IF sid \in DOMAIN sessions THEN sessions[sid]
                   ELSE ConversationState(sid)
        checked == IF RestartRequested(created, message) THEN RestartSession(created)
                   ELSE created
    IN MergeExtracted(AddMessage(checked, "user", message),
                      analyze_intent(reply).extracted)

\* The handler's locals are bound by a quantifier over a one-element set: each
\* is computed once per request.
chat(sid, message, reply) ==
    \E intent_analysis \in {analyze_intent(reply)},
       state \in {Merged(sid, message, reply)} :
    \E slot \in {state.booking_details.selected_slot},
       available_slots \in {SlotsToShow(state, intent_analysis.next_action)},
       can_book \in {CanBook(state, intent_analysis)} :
    LET \* not part of the HTTP response: whether the restart branch was taken,
        \* and how many slot lookups were made
        restarted == sid \in DOMAIN sessions /\ RestartRequested(sessions[sid], message)
        lookups == SlotLookups(state, intent_analysis)
    IN /\ request' = [op |-> "chat", session_id |-> sid, message |-> message,
                      reply |-> reply]
       /\ \/ \* KeyError building booking_data: the slot has no date or start_time
             /\ can_book
             /\ ~({"date", "start_time"} \subseteq DOMAIN slot)
             /\ sessions' = Put(sessions, sid, state)
             /\ response' = [status |-> "error", restarted |-> restarted]
             /\ UNCHANGED <<bookings, uuid>>
          \/ \* booked, then KeyError writing the confirmation: the slot has no day
             /\ can_book
             /\ {"date", "start_time"} \subseteq DOMAIN slot
             /\ "day" \notin DOMAIN slot
             /\ bookings' = book_appointment(bookings, uuid, BookingData(state))
             /\ uuid' = uuid + 2
             /\ sessions' = Put(sessions, sid, [state EXCEPT !.phase = COMPLETE])
             /\ response' = [status |-> "error", restarted |-> restarted]
          \/ \* booked and confirmed
             /\ can_book
             /\ {"date", "start_time", "day"} \subseteq DOMAIN slot
             /\ bookings' = book_appointment(bookings, uuid, BookingData(state))
             /\ uuid' = uuid + 2
             /\ sessions' = Put(sessions, sid,
                                AddMessage([state EXCEPT !.phase = COMPLETE],
                                           "assistant", "confirmation"))
             /\ response' = [status |-> "ok", phase |-> COMPLETE,
                             available_slots |-> <<>>, booking |-> uuid,
                             next_action |-> intent_analysis.next_action,
                             generated |-> FALSE, restarted |-> restarted,
                             lookups |-> lookups]
          \/ \* not booked: the reply is generated
             /\ ~can_book
             /\ sessions' = Put(sessions, sid, AddMessage(state, "assistant", "reply"))
             /\ response' = [status |-> "ok", phase |-> state.phase,
                             available_slots |-> available_slots, booking |-> 0,
                             next_action |-> intent_analysis.next_action,
                             generated |-> TRUE, restarted |-> restarted,
                             lookups |-> lookups]
             /\ UNCHANGED <<bookings, uuid>>
       /\ UNCHANGED SCHEDULE_DATA

(***************************************************************************)
(* select_slot, get_booking, reset_session                                 *)
(***************************************************************************)
select_slot(sid, slot) ==
    /\ request' = [op |-> "select_slot", session_id |-> sid, slot |-> slot]
    /\ \/ /\ sid \notin DOMAIN sessions
          /\ response' = [status |-> "not_found"]
          /\ UNCHANGED sessions
       \/ \* KeyError on slot["date"], after the slot is stored
          /\ sid \in DOMAIN sessions
          /\ "date" \notin DOMAIN slot
          /\ sessions' = [sessions EXCEPT ![sid].booking_details.selected_slot = slot]
          /\ response' = [status |-> "error"]
       \/ /\ sid \in DOMAIN sessions
          /\ "date" \in DOMAIN slot
          /\ sessions' = [sessions EXCEPT
                             ![sid].booking_details.selected_slot = slot,
                             ![sid].booking_details.preferred_date = slot.date,
                             ![sid].phase = COLLECTING_INFO]
          /\ response' = [status |-> "success", selected_slot |-> slot]
    /\ UNCHANGED <<SCHEDULE_DATA, bookings, uuid>>

get_booking(booking_id) ==
    /\ request' = [op |-> "get_booking", booking_id |-> booking_id]
    /\ response' = IF booking_id \in DOMAIN bookings
                   THEN [status |-> "ok", booking |-> bookings[booking_id]]
                   ELSE [status |-> "not_found"]
    /\ UNCHANGED <<SCHEDULE_DATA, sessions, bookings, uuid>>

\* mutant: the reset keeps the collected flags
ResetKeepsFlags(state) ==
    [state EXCEPT !.phase = GREETING, !.patient_info = PatientInfo,
                  !.booking_details = BookingDetails]

\* lines 624-635
ResetSession(state) ==
    [state EXCEPT !.phase = GREETING, !.patient_info = PatientInfo,
                  !.booking_details = BookingDetails, !.collected_info = NoneCollected]

\* mutant: a session is created for an unknown identifier
ResetOrCreate(store, sid) ==
    [k \in DOMAIN store \cup {sid} |->
        IF k # sid THEN store[k]
        ELSE IF sid \in DOMAIN store THEN ResetSession(store[sid])
        ELSE ConversationState(sid)]

\* the session store after reset_session(sid)
ResetStore(store, sid) ==
    IF sid \in DOMAIN store THEN [store EXCEPT ![sid] = ResetSession(@)] ELSE store

reset_session(sid) ==
    /\ request' = [op |-> "reset_session", session_id |-> sid]
    /\ sessions' = ResetStore(sessions, sid)
    /\ response' = [status |-> IF sid \in DOMAIN sessions THEN "reset" ELSE "not_found"]
    /\ UNCHANGED <<SCHEDULE_DATA, bookings, uuid>>

(***************************************************************************)
(* The server                                                              *)
(***************************************************************************)
Init ==
    /\ SCHEDULE_DATA = SmallTable
    /\ sessions = << >>
    /\ bookings = << >>
    /\ uuid = 1
    /\ request = [op |-> "start"]
    /\ response = [status |-> "start"]
    /\ inflight = << >>

Chat ==
    /\ StoredMessages + 2 =< MaxMessages
    /\ \E sid \in SessionIds, message \in Messages, reply \in OracleReplies :
          /\ (sid \in DOMAIN sessions \/ Cardinality(DOMAIN sessions) < MaxSessions)
          /\ chat(sid, message, reply)
    /\ UNCHANGED inflight

SelectSlot ==
    /\ \E sid \in SessionIds, slot \in PostedSlots : select_slot(sid, slot)
    /\ UNCHANGED inflight

GetBooking ==
    /\ \E booking_id \in BookingIds : get_booking(booking_id)
    /\ UNCHANGED inflight

ResetSessionRequest ==
    /\ \E sid \in SessionIds : reset_session(sid)
    /\ UNCHANGED inflight

Next == Chat \/ SelectSlot \/ GetBooking \/ ResetSessionRequest

Spec == Init /\ [][Next]_vars

(***************************************************************************)
(* Session and ledger claims (checked under Spec)                          *)
(***************************************************************************)
\* the step is a chat request
ChatStep == request'.op = "chat"

\* the step is a chat request for a session that exists
ChatOnSession == ChatStep /\ request'.session_id \in DOMAIN sessions

\* the result the handler works with in the step's chat request
StepExtracted == analyze_intent(request'.reply).extracted

ContactFields == {"name", "email", "phone"}

\* C1 as stated: a chat request appends a booking only if the session's name,
\* email and phone are non-empty and its selected slot is present and carries
\* a non-empty end time.
C1_FinalizeGate ==
    [][(ChatStep /\ bookings' # bookings) =>
          LET state == sessions'[request'.session_id]
              slot == state.booking_details.selected_slot
          IN /\ \A f \in ContactFields : Truthy(state.patient_info[f])
             /\ DOMAIN slot # {}
             /\ "end_time" \in DOMAIN slot
             /\ Truthy(slot.end_time)]_vars

\* the finalize gate without the oracle's signal: the three contact fields
\* and a selected slot with an end time
GateHolds(state) ==
    /\ \A f \in ContactFields : Truthy(state.patient_info[f])
    /\ DOMAIN state.booking_details.selected_slot # {}
    /\ "end_time" \in DOMAIN state.booking_details.selected_slot

\* C2 as stated: in a chat request, when the gate holds and the oracle signals
\* ready_to_book, exactly one record is added, the phase becomes complete, the
\* response carries that booking and no slots, and no reply is generated; when
\* the oracle does not signal readiness no record is added and the reply is
\* generated.
C2_FinalizeOrGenerate ==
    [][ChatStep =>
          LET sid == request'.session_id
              state == Merged(sid, request'.message, request'.reply)
              ready == analyze_intent(request'.reply).ready_to_book
              added == DOMAIN bookings' \ DOMAIN bookings
          IN /\ (GateHolds(state) /\ ready) =>
                    /\ Cardinality(added) = 1
                    /\ \A id \in DOMAIN bookings : bookings'[id] = bookings[id]
                    /\ sessions'[sid].phase = COMPLETE
                    /\ response'.status = "ok"
                    /\ response'.booking \in added
                    /\ response'.available_slots = <<>>
                    /\ ~response'.generated
             /\ ~ready =>
                    /\ bookings' = bookings
                    /\ response'.status = "ok"
                    /\ response'.generated]_vars

\* C3: in a chat request that does not restart the session, a patient field
\* that is already non-empty keeps its value, whatever the oracle extracts.
C3_PatientFieldsSetOnce ==
    [][(ChatOnSession
        /\ ~RestartRequested(sessions[request'.session_id], request'.message)) =>
          \A f \in ContactFields :
              Truthy(sessions[request'.session_id].patient_info[f]) =>
                  sessions'[request'.session_id].patient_info[f]
                      = sessions[request'.session_id].patient_info[f]]_vars

\* C3 witness: a chat request without restart whose oracle result extracted a
\* name other than the stored one, which is kept
C3_Witness ==
    /\ request.op = "chat"
    /\ ~response.restarted
    /\ request.reply.parses
    /\ request.reply.extracted.name = "Bob"
    /\ sessions[request.session_id].patient_info.name = "Ann"

\* C4 as stated: in phase complete a chat request whose message holds no
\* restart keyword leaves the phase at complete, whatever the oracle returns.
C4_CompleteIsTerminal_Original ==
    [][(ChatOnSession
        /\ sessions[request'.session_id].phase = COMPLETE
        /\ ~HasRestartWord(request'.message)) =>
          sessions'[request'.session_id].phase = COMPLETE]_vars

\* the extracted fields whose merge sets the phase
MovesPhase(extracted) ==
    \/ Truthy(extracted.reason)
    \/ Truthy(extracted.appointment_type)
    \/ Truthy(extracted.time_preference)
    \/ DOMAIN extracted.specific_slot # {}
    \/ Truthy(extracted.slot_selection)

\* C4 amended: in phase complete a chat request whose message holds no restart
\* keyword leaves the phase at complete unless the oracle's result extracts a
\* reason, an appointment type, a time preference or a slot.
C4_CompleteIsTerminal ==
    [][(ChatOnSession
        /\ sessions[request'.session_id].phase = COMPLETE
        /\ ~HasRestartWord(request'.message)
        /\ ~MovesPhase(StepExtracted)) =>
          sessions'[request'.session_id].phase = COMPLETE]_vars

\* C4 witness: a chat request without restart keyword and without a booking
\* of its own that ends in phase complete, so that it began there, and whose
\* oracle result extracted a name
C4_Witness ==
    /\ request.op = "chat"
    /\ ~HasRestartWord(request.message)
    /\ response.status = "ok"
    /\ response.generated
    /\ sessions[request.session_id].phase = COMPLETE
    /\ request.reply.parses
    /\ request.reply.extracted.name = "Bob"

\* the state holds nothing but what the extraction of one request brings
OnlyFrom(state, extracted) ==
    /\ \A f \in ContactFields : state.patient_info[f] \in {None, extracted[f]}
    /\ state.booking_details.reason \in {None, extracted.reason}
    /\ state.booking_details.appointment_type \in {None, extracted.appointment_type}
    /\ state.booking_details.preferred_date \in {None, extracted.date}
    /\ state.booking_details.preferred_time \in {None, extracted.time_preference}
    /\ DOMAIN state.booking_details.selected_slot # {} =>
           (DOMAIN extracted.specific_slot # {} \/ Truthy(extracted.slot_selection))
    /\ \A f \in ContactFields \cup {"reason", "appointment_type", "date"} :
           state.collected_info[f] => Truthy(extracted[f])
    /\ state.collected_info.time => Truthy(extracted.time_preference)

IsPrefix(old, new) == Len(old) =< Len(new) /\ SubSeq(new, 1, Len(old)) = old

\* nothing the state holds is cleared
NothingCleared(old, new) ==
    /\ \A f \in ContactFields :
           Truthy(old.patient_info[f]) => new.patient_info[f] = old.patient_info[f]
    /\ Truthy(old.booking_details.reason) =>
           new.booking_details.reason = old.booking_details.reason
    /\ \A f \in {"appointment_type", "preferred_date", "preferred_time"} :
           Truthy(old.booking_details[f]) => Truthy(new.booking_details[f])
    /\ DOMAIN old.booking_details.selected_slot # {} =>
           DOMAIN new.booking_details.selected_slot # {}
    /\ \A f \in DOMAIN old.collected_info :
           old.collected_info[f] => new.collected_info[f]

\* C5: a chat request in phase complete whose message holds a restart keyword
\* leaves in patient info, booking details and collected flags only what its
\* own oracle result extracts, and keeps every stored message and the session
\* identifier; with the session in any other phase nothing is cleared.
C5_RestartClears ==
    [][(ChatOnSession /\ HasRestartWord(request'.message)) =>
          LET old == sessions[request'.session_id]
              new == sessions'[request'.session_id]
          IN /\ IsPrefix(old.messages, new.messages)
             /\ new.session_id = old.session_id
             /\ old.phase = COMPLETE => OnlyFrom(new, StepExtracted)
             /\ old.phase # COMPLETE => NothingCleared(old, new)]_vars

\* C5 witness: a restart was taken by a request whose oracle result extracted
\* a phone number: the session holds that number and no name
C5_Witness ==
    /\ request.op = "chat"
    /\ response.restarted
    /\ request.reply.parses
    /\ request.reply.extracted.phone = "555-0002"
    /\ sessions[request.session_id].patient_info.phone = "555-0002"
    /\ sessions[request.session_id].patient_info.name = None
    /\ Len(sessions[request.session_id].messages) = 4

\* C6: every booking of the ledger stays in it, under its identifier and with
\* all its fields, whatever the step.
C6_LedgerOnlyGrows ==
    [][\A id \in DOMAIN bookings :
          id \in DOMAIN bookings' /\ bookings'[id] = bookings[id]]_vars

\* C6 witness: a second booking was written by a request that restarted the
\* session of the first, and the first booking is in the ledger as written
C6_Witness ==
    /\ request.op = "chat"
    /\ response.restarted
    /\ response.status = "ok"
    /\ response.booking = 3
    /\ DOMAIN bookings = {1, 3}
    /\ bookings[1].booking_id = 1
    /\ bookings[1].data.patient.name = "Ann"
    /\ bookings[1].data.end_time = "09:30"

IsInitial(state) ==
    /\ state.phase = GREETING
    /\ \A f \in ContactFields : state.patient_info[f] = None
    /\ \A f \in {"appointment_type", "preferred_date", "preferred_time", "reason"} :
           state.booking_details[f] = None
    /\ DOMAIN state.booking_details.selected_slot = {}
    /\ \A f \in DOMAIN state.collected_info : ~state.collected_info[f]

\* C7: reset-session on an existing session answers "reset", leaves the
\* session in its initial state (so that a second reset changes nothing more),
\* changes nothing when the session is in its initial state already, and
\* leaves the message history as it is.
C7_ResetIdempotent ==
    [][(request'.op = "reset_session" /\ request'.session_id \in DOMAIN sessions) =>
          LET old == sessions[request'.session_id]
              new == sessions'[request'.session_id]
          IN /\ response'.status = "reset"
             /\ IsInitial(new)
             /\ new.messages = old.messages
             /\ new.session_id = old.session_id
             /\ IsInitial(old) => new = old]_vars

\* C7 witness: a reset answered "reset" on a session with a history
C7_Witness ==
    /\ request.op = "reset_session"
    /\ response.status = "reset"
    /\ Len(sessions[request.session_id].messages) = 4
    /\ bookings # << >>

\* C8: select-slot and reset-session for an unknown session identifier answer
\* not found and change neither the session store nor the ledger; a session
\* is created by a chat request only, and none is ever removed.
C8_UnknownSession ==
    [][/\ (request'.op \in {"select_slot", "reset_session"}
           /\ request'.session_id \notin DOMAIN sessions) =>
              /\ response'.status = "not_found"
              /\ sessions' = sessions
              /\ bookings' = bookings
       /\ DOMAIN sessions \subseteq DOMAIN sessions'
       /\ DOMAIN sessions' # DOMAIN sessions => ChatStep]_vars

\* C8 witness: select-slot answered not found while another session exists
C8_Witness ==
    /\ request.op = "select_slot"
    /\ response.status = "not_found"
    /\ request.session_id \notin DOMAIN sessions
    /\ DOMAIN sessions # {}

(***************************************************************************)
(* Slot finder claims (checked under SpecSlots)                            *)
(***************************************************************************)
MorningTokens == {"morning", "Morning", "MORNING", "am", "AM"}
AfternoonTokens == {"afternoon", "Afternoon", "pm", "PM"}
EveningTokens == {"evening", "Evening"}

\* the band a token asks for; a token that names no band asks for none
InBand(token, hour) ==
    /\ token \in MorningTokens => hour < 12
    /\ token \in AfternoonTokens => (12 =< hour /\ hour < 17)
    /\ token \in EveningTokens => hour >= 17

\* the positions <<day index, slot index>> of a type's schedule, in table order
Positions(t) ==
    IF t \notin DOMAIN SCHEDULE_DATA THEN {}
    ELSE LET sch == SCHEDULE_DATA[t].schedule
         IN UNION {{<<i, j>> : j \in DOMAIN sch[i].slots} : i \in DOMAIN sch}

Before(p, q) == p[1] < q[1] \/ (p[1] = q[1] /\ p[2] < q[2])

\* the positions the claim selects: available, on the date when one is given
\* (a non-empty string), in the band of the token
Selected(t, d, token) ==
    {p \in Positions(t) :
        LET dd == SCHEDULE_DATA[t].schedule[p[1]]
            sl == dd.slots[p[2]]
        IN /\ sl.available
           /\ Truthy(d) => dd.date = d
           /\ InBand(token, sl.start_time \div 100)}

Rank(p, S) == Cardinality({q \in S : Before(q, p)}) + 1

\* C9: the slot finder returns exactly the first 10 (or fewer), in table
\* order, of the available slots on the given date and in the requested band,
\* each with day, date, start and end time of the table and the type's duration.
C9_SlotFinderFirstTenFiltered ==
    request.op = "get_available_slots" =>
        LET t == request.appointment_type
            S == Selected(t, request.date, request.time_preference)
            r == response.slots
        IN /\ Len(r) = (IF Cardinality(S) < 10 THEN Cardinality(S) ELSE 10)
           /\ \A p \in S :
                Rank(p, S) =< 10 =>
                    LET dd == SCHEDULE_DATA[t].schedule[p[1]]
                        sl == dd.slots[p[2]]
                    IN r[Rank(p, S)] =
                         [day |-> dd.day, date |-> dd.date,
                          start_time |-> sl.start_time, end_time |-> sl.end_time,
                          duration |-> SCHEDULE_DATA[t].duration_minutes]

\* C9 witness: a query with a date and a mixed-case band token that keeps some
\* slots of the day and drops others
C9_Witness ==
    /\ request.op = "get_available_slots"
    /\ request.date = "2025-11-05"
    /\ request.time_preference = "PM"
    /\ Len(response.slots) = 2
    /\ response.slots[1].start_time = 1630

\* C9 witness of the cap: more than ten slots match and ten are returned
C9_WitnessCap ==
    /\ request.op = "get_available_slots"
    /\ Cardinality(Selected(request.appointment_type, request.date,
                            request.time_preference)) > 10
    /\ Len(response.slots) = 10

TableDates(t) ==
    IF t \notin DOMAIN SCHEDULE_DATA THEN {}
    ELSE {SCHEDULE_DATA[t].schedule[i].date : i \in DOMAIN SCHEDULE_DATA[t].schedule}

\* C10 as stated: a type code absent from the table, or any date value absent
\* from the type's days, the empty string included, yields an empty sequence.
C10_AbsentTypeOrDateEmpty_Original ==
    request.op = "get_available_slots" =>
        ((\/ request.appointment_type \notin DOMAIN SCHEDULE_DATA
          \/ (request.date # None /\ request.date \notin TableDates(request.appointment_type)))
            => response.slots = <<>>)

\* C10 amended: a type code absent from the table, or a non-empty date absent
\* from the type's days, yields an empty sequence (an empty date is no filter).
C10_AbsentTypeOrDateEmpty ==
    request.op = "get_available_slots" =>
        ((\/ request.appointment_type \notin DOMAIN SCHEDULE_DATA
          \/ (Truthy(request.date)
              /\ request.date \notin TableDates(request.appointment_type)))
            => response.slots = <<>>)

\* C10 witness: a type with available slots asked for a date it has no day for
C10_Witness ==
    /\ request.op = "get_available_slots"
    /\ request.appointment_type = "general_consultation"
    /\ request.date = "2025-12-25"
    /\ get_available_slots("general_consultation", None, request.time_preference) # <<>>
    /\ response.slots = <<>>

(***************************************************************************)
(* AgentTools.recommend_appointment_type.  A text is the sequence of its   *)
(* characters.                                                             *)
(***************************************************************************)
UpperCase == <<"A", "B", "C", "D", "E", "F", "G", "H", "I", "J", "K", "L", "M", "N", "O", "P", "Q", "R", "S", "T", "U", "V", "W", "X", "Y", "Z">>

LowerCase == <<"a", "b", "c", "d", "e", "f", "g", "h", "i", "j", "k", "l", "m", "n", "o", "p", "q", "r", "s", "t", "u", "v", "w", "x", "y", "z">>

\* str.lower() on one character
LowerChar(c) ==
    IF \E i \in 1..26 : UpperCase[i] = c
    THEN LowerCase[CHOOSE i \in 1..26 : UpperCase[i] = c]
    ELSE c

\* `word in text`: the scan for the first place where word starts
RECURSIVE WordInFrom(_, _, _)
WordInFrom(word, text, i) ==
    IF i + Len(word) - 1 > Len(text) THEN FALSE
    ELSE IF SubSeq(text, i, i + Len(word) - 1) = word THEN TRUE
    ELSE WordInFrom(word, text, i + 1)

WordIn(word, text) == WordInFrom(word, text, 1)

FollowupWords ==
    {<<"f", "o", "l", "l", "o", "w", "u", "p">>,
     <<"f", "o", "l", "l", "o", "w", "-", "u", "p">>,
     <<"f", "o", "l", "l", "o", "w", " ", "u", "p">>,
     <<"c", "h", "e", "c", "k", "u", "p">>,
     <<"c", "h", "e", "c", "k", " ", "u", "p">>,
     <<"r", "o", "u", "t", "i", "n", "e", " ", "c", "h", "e", "c", "k">>}

PhysicalWords ==
    {<<"p", "h", "y", "s", "i", "c", "a", "l">>,
     <<"e", "x", "a", "m">>,
     <<"a", "n", "n", "u", "a", "l">>,
     <<"c", "o", "m", "p", "l", "e", "t", "e", " ", "e", "x", "a", "m">>}

SpecialistWords ==
    {<<"s", "p", "e", "c", "i", "a", "l", "i", "s", "t">>,
     <<"c", "a", "r", "d", "i", "o", "l", "o", "g", "i", "s", "t">>,
     <<"d", "e", "r", "m", "a", "t", "o", "l", "o", "g", "i", "s", "t">>,
     <<"n", "e", "u", "r", "o", "l", "o", "g", "i", "s", "t">>,
     <<"s", "e", "r", "i", "o", "u", "s">>,
     <<"c", "h", "r", "o", "n", "i", "c">>}

\* mutant: the physical keywords are tried before the follow-up keywords
RecommendPhysicalFirst(reason) ==
    LET reason_lower == [i \in 1..Len(reason) |-> LowerChar(reason[i])]
    IN IF \E word \in PhysicalWords : WordIn(word, reason_lower) THEN "physical_exam"
       ELSE IF \E word \in FollowupWords : WordIn(word, reason_lower) THEN "followup"
       ELSE IF \E word \in SpecialistWords : WordIn(word, reason_lower)
            THEN "specialist_consultation"
       ELSE "general_consultation"

recommend_appointment_type(reason) ==
    LET reason_lower == [i \in 1..Len(reason) |-> LowerChar(reason[i])]
    IN IF \E word \in FollowupWords : WordIn(word, reason_lower) THEN "followup"
       ELSE IF \E word \in PhysicalWords : WordIn(word, reason_lower) THEN "physical_exam"
       ELSE IF \E word \in SpecialistWords : WordIn(word, reason_lower)
            THEN "specialist_consultation"
       ELSE "general_consultation"

(***************************************************************************)
(* The type recommender on its own: the reason is a text put together from *)
(* at most MaxFragments of the fragments below.                            *)
(***************************************************************************)
MaxFragments == 3

Fragments ==
    {<<"f", "o", "l", "l", "o", "w">>,
     <<"u", "p">>,
     <<"-">>,
     <<" ">>,
     <<"c", "h", "e", "c", "k">>,
     <<"E", "x", "a", "m">>,
     <<"A", "N", "N", "U", "A", "L">>,
     <<"c", "h", "r", "o", "n", "i", "c">>,
     <<"p", "a", "i", "n">>,
     <<"r", "o", "u", "t", "i", "n", "e">>,
     <<"S", "e", "r", "i", "o", "u", "s">>,
     <<"P", "h", "y", "s", "i", "c", "a", "l">>}

RECURSIVE ReasonTexts(_)
ReasonTexts(n) ==
    IF n = 0 THEN {<<>>}
    ELSE ReasonTexts(n - 1) \cup {a \o f : a \in ReasonTexts(n - 1), f \in Fragments}

InitRecommend ==
    /\ SCHEDULE_DATA = SmallTable
    /\ sessions = << >>
    /\ bookings = << >>
    /\ uuid = 1
    /\ request = [op |-> "start"]
    /\ response = [status |-> "start"]
    /\ inflight = << >>

\* one call of the recommender
Recommend ==
    /\ request.op = "start"
    /\ \E reason \in ReasonTexts(MaxFragments) :
        /\ request' = [op |-> "recommend_appointment_type", reason |-> reason]
        /\ response' = [status |-> "ok",
                        appointment_type |-> recommend_appointment_type(reason)]
        /\ UNCHANGED <<SCHEDULE_DATA, sessions, bookings, uuid, inflight>>

NextRecommend == Recommend

SpecRecommend == InitRecommend /\ [][NextRecommend]_vars

(***************************************************************************)
(* Type recommender claim (checked under SpecRecommend)                    *)
(***************************************************************************)
SameLetter(a, b) == LowerChar(a) = LowerChar(b)

\* the word occurs in the text, letter case aside
Occurs(word, text) ==
    \E k \in 0..(Len(text) - Len(word)) :
        \A j \in 1..Len(word) : SameLetter(text[k + j], word[j])

OccursAny(words, text) == \E word \in words : Occurs(word, text)

\* C11: for every reason text, the empty one included, the recommender
\* returns one of the four codes: followup if a follow-up keyword occurs in
\* it, else physical_exam if a physical keyword occurs, else
\* specialist_consultation if a specialist keyword occurs, else
\* general_consultation.
C11_RecommenderTotalOrdered ==
    request.op = "recommend_appointment_type" =>
        LET text == request.reason
            code == response.appointment_type
        IN /\ code \in DOMAIN APPOINTMENT_TYPES
           /\ code = "followup" <=> OccursAny(FollowupWords, text)
           /\ code = "physical_exam" <=>
                  (~OccursAny(FollowupWords, text) /\ OccursAny(PhysicalWords, text))
           /\ code = "specialist_consultation" <=>
                  (/\ ~OccursAny(FollowupWords, text)
                   /\ ~OccursAny(PhysicalWords, text)
                   /\ OccursAny(SpecialistWords, text))
           /\ code = "general_consultation" <=>
                  (/\ ~OccursAny(FollowupWords, text)
                   /\ ~OccursAny(PhysicalWords, text)
                   /\ ~OccursAny(SpecialistWords, text))

\* C11 witness: "ANNUAL checkup" holds a physical and a follow-up keyword, the
\* first of them in capitals, and is recommended a follow-up
C11_Witness ==
    /\ request.op = "recommend_appointment_type"
    /\ request.reason = <<"A", "N", "N", "U", "A", "L", "c", "h", "e", "c", "k", "u", "p">>
    /\ response.appointment_type = "followup"

\* C11 witness of the default: the empty text
C11_WitnessEmpty ==
    /\ request.op = "recommend_appointment_type"
    /\ request.reason = <<>>
    /\ response.appointment_type = "general_consultation"

(***************************************************************************)
(* select-slot and oracle failure claims (checked under Spec)              *)
(***************************************************************************)
\* C12 as stated: select-slot on an existing session stores the given slot,
\* sets the preferred date to the slot's date and the phase to
\* collecting_info, and leaves patient info, reason, appointment type,
\* preferred time, collected flags, messages, the other sessions and the
\* ledger as they are.
C12_SelectSlotFrame ==
    [][(request'.op = "select_slot" /\ request'.session_id \in DOMAIN sessions) =>
          LET sid == request'.session_id
              slot == request'.slot
              old == sessions[sid]
              new == sessions'[sid]
          IN /\ new.booking_details.selected_slot = slot
             /\ new.booking_details.preferred_date = Get(slot, "date")
             /\ new.phase = COLLECTING_INFO
             /\ new.patient_info = old.patient_info
             /\ \A f \in {"reason", "appointment_type", "preferred_time"} :
                    new.booking_details[f] = old.booking_details[f]
             /\ new.collected_info = old.collected_info
             /\ new.messages = old.messages
             /\ new.session_id = old.session_id
             /\ DOMAIN sessions' = DOMAIN sessions
             /\ \A other \in DOMAIN sessions \ {sid} : sessions'[other] = sessions[other]
             /\ bookings' = bookings]_vars

\* C13: a chat request whose oracle call fails or whose reply does not parse
\* leaves phase, patient info, booking details and collected flags as the
\* restart check left them, writes no booking, looks up no slots, appends the
\* user message and one assistant message, and answers with next action
\* "ask_reason".
C13_OracleFailure ==
    [][(ChatStep /\ ~request'.reply.parses) =>
          LET sid == request'.session_id
              old == IF sid \in DOMAIN sessions THEN sessions[sid]
                     ELSE ConversationState(sid)
              new == sessions'[sid]
          IN /\ IF response'.restarted
                THEN IsInitial(new)
                ELSE /\ new.phase = old.phase
                     /\ new.patient_info = old.patient_info
                     /\ new.booking_details = old.booking_details
                     /\ new.collected_info = old.collected_info
             /\ response'.restarted <=> (old.phase = COMPLETE
                                        /\ HasRestartWord(request'.message))
             /\ bookings' = bookings
             /\ response'.status = "ok"
             /\ response'.lookups = 0
             /\ response'.available_slots = <<>>
             /\ response'.next_action = "ask_reason"
             /\ response'.generated
             /\ Len(new.messages) = Len(old.messages) + 2
             /\ SubSeq(new.messages, 1, Len(old.messages)) = old.messages
             /\ new.messages[Len(old.messages) + 1].role = "user"
             /\ new.messages[Len(old.messages) + 1].content = request'.message
             /\ new.messages[Len(old.messages) + 2].role = "assistant"]_vars

\* C13 witness: the oracle failed on a session that holds the three contact
\* fields and a slot with an end time, and nothing was booked
C13_Witness ==
    /\ request.op = "chat"
    /\ ~request.reply.parses
    /\ GateHolds(sessions[request.session_id])
    /\ sessions[request.session_id].phase = COLLECTING_INFO
    /\ Len(sessions[request.session_id].messages) = 4
    /\ bookings = << >>

(***************************************************************************)
(* The booking conversation with a scripted oracle: one session, and the   *)
(* oracle's k-th reply extracts what the k-th message of the script gives. *)
(***************************************************************************)
ScriptedSession == "s1"

ScriptedTypes == {"general_consultation", "followup"}

\* what the oracle extracts from the messages of the script, in order
Script ==
    <<{With(NoExtracted, "reason", v) : v \in Reasons},
      {With(NoExtracted, "appointment_type", v) : v \in ScriptedTypes},
      {With(NoExtracted, "time_preference", "afternoon")},
      {With(NoExtracted, "slot_selection", "1")},
      {With(NoExtracted, "name", v) : v \in Names},
      {With(NoExtracted, "phone", v) : v \in Phones},
      {With(NoExtracted, "email", v) : v \in Emails},
      {NoExtracted}>>

\* the oracle signals readiness in its last reply, and not in the one before,
\* where the gate holds already
ScriptedReady(k) ==
    IF k = Len(Script) THEN {TRUE}
    ELSE IF k = Len(Script) - 1 THEN {FALSE}
    ELSE BOOLEAN

ScriptedReplies(k) ==
    {[parses |-> TRUE, extracted |-> e, next_action |-> a, ready_to_book |-> r] :
        e \in Script[k], a \in NextActions, r \in ScriptedReady(k)}

\* the requests the session has seen
Handled(sid) == IF sid \in DOMAIN sessions THEN Len(sessions[sid].messages) \div 2 ELSE 0

\* the ordinal selection of the script has a slot to select
HasMatchingSlot(sid) ==
    /\ sid \in DOMAIN sessions
    /\ get_available_slots(sessions[sid].booking_details.appointment_type,
                           sessions[sid].booking_details.preferred_date,
                           sessions[sid].booking_details.preferred_time) # <<>>

InitScripted ==
    /\ SCHEDULE_DATA \in {SmallTable, WideTable}
    /\ sessions = << >>
    /\ bookings = << >>
    /\ uuid = 1
    /\ request = [op |-> "start"]
    /\ response = [status |-> "start"]
    /\ inflight = << >>

ScriptedChat ==
    LET k == Handled(ScriptedSession) + 1
    IN /\ k =< Len(Script)
       /\ Script[k] = {With(NoExtracted, "slot_selection", "1")}
              => HasMatchingSlot(ScriptedSession)
       /\ \E message \in Messages, reply \in ScriptedReplies(k) :
              chat(ScriptedSession, message, reply)
       /\ UNCHANGED inflight

NextScripted == ScriptedChat

SpecScripted == InitScripted /\ [][NextScripted]_vars

(***************************************************************************)
(* Scenario claim (checked under SpecScripted)                             *)
(***************************************************************************)
\* the phase the claim gives after k messages of the script
ScenarioPhase(k) ==
    CASE k = 0 -> GREETING
      [] k = 1 -> SELECTING_TYPE
      [] k = 2 -> UNDERSTANDING
      [] k = 3 -> SHOWING_SLOTS
      [] k \in 4..7 -> COLLECTING_INFO
      [] k = 8 -> COMPLETE

\* the patient field the claim has the k-th message set
ScenarioField(k) ==
    CASE k = 5 -> {"name"} [] k = 6 -> {"phone"} [] k = 7 -> {"email"} [] OTHER -> {}

\* C14: the scripted conversation reason, type, "afternoon", ordinal 1, name,
\* phone, email, confirmation takes the phase from greeting to
\* selecting_type, understanding, showing_slots, collecting_info (kept by the
\* three contact messages) and complete; from the ordinal step on the
\* selected slot has an end time; each contact message sets its one patient
\* field and changes no other; the last message, and no earlier one, writes
\* exactly one booking.
C14_Scenario ==
    [][ChatStep =>
          LET sid == request'.session_id
              old == IF sid \in DOMAIN sessions THEN sessions[sid]
                     ELSE ConversationState(sid)
              new == sessions'[sid]
              k == Len(new.messages) \div 2
              changed == {f \in ContactFields : new.patient_info[f] # old.patient_info[f]}
          IN /\ response'.status = "ok"
             /\ Len(new.messages) = Len(old.messages) + 2
             /\ old.phase = ScenarioPhase(k - 1)
             /\ new.phase = ScenarioPhase(k)
             /\ k < 4 => new.booking_details.selected_slot = NoSlot
             /\ k >= 4 => Truthy(Get(new.booking_details.selected_slot, "end_time"))
             /\ changed = ScenarioField(k)
             /\ \A f \in changed :
                    /\ old.patient_info[f] = None
                    /\ new.patient_info[f] = StepExtracted[f]
                    /\ Truthy(new.patient_info[f])
             /\ k < 8 => (bookings = << >> /\ bookings' = << >>)
             /\ k = 8 => /\ bookings = << >>
                         /\ Cardinality(DOMAIN bookings') = 1
                         /\ response'.booking \in DOMAIN bookings'
                         /\ bookings'[response'.booking].data.patient = new.patient_info
                         /\ bookings'[response'.booking].data.end_time
                                = new.booking_details.selected_slot.end_time]_vars

\* C14 witness: the script has run to its end: sixteen messages, phase
\* complete, one booking for the slot the ordinal step selected
C14_Witness ==
    /\ ScriptedSession \in DOMAIN sessions
    /\ Len(sessions[ScriptedSession].messages) = 16
    /\ sessions[ScriptedSession].phase = COMPLETE
    /\ Cardinality(DOMAIN bookings) = 1
    /\ bookings[1].data.patient.name = "Bob"
    /\ bookings[1].data.start_time = 1400
    /\ bookings[1].data.end_time = "14:30"
    /\ bookings[1].data.reason = "headache"

(***************************************************************************)
(* The booking details of one session: chat requests whose oracle replies  *)
(* range over reasons, types, dates, times of day and slot choices, under  *)
(* a table with a short day and one with a day of more than ten slots.     *)
(***************************************************************************)
\* chat requests are accepted while the session holds at most this many
\* messages
MaxDetailMessages == 6

\* a day with eleven available slots, and a second day
BusyTable ==
    [general_consultation |->
        [duration_minutes |-> 30,
         schedule |-> <<Day("thursday", "2025-11-06",
                            <<Slot(800, "08:30", TRUE), Slot(830, "09:00", TRUE),
                              Slot(900, "09:30", TRUE), Slot(930, "10:00", FALSE),
                              Slot(1000, "10:30", TRUE), Slot(1030, "11:00", TRUE),
                              Slot(1100, "11:30", TRUE), Slot(1130, "12:00", TRUE),
                              Slot(1200, "12:30", TRUE), Slot(1230, "13:00", TRUE),
                              Slot(1300, "13:30", TRUE), Slot(1330, "14:00", TRUE)>>),
                        Day("tuesday", "2025-11-04",
                            <<Slot(900, "09:30", TRUE)>>)>>]]

DetailSession == "s1"

DetailReasons == {"headache", "cough"}
DetailTypes == {"general_consultation", "followup", "dental"}
DetailDates == {"2025-11-04", "2025-12-25"}
DetailTimes == {"afternoon", "Morning"}

\* a slot both tables hold, one neither holds, the tenth and the eleventh
\* available slot of the long day, and a slot given with its end time
DetailSlots ==
    {[date |-> "2025-11-04", start_time |-> 900],
     [date |-> "2025-11-04", start_time |-> 1000],
     [date |-> "2025-11-06", start_time |-> 1300],
     [date |-> "2025-11-06", start_time |-> 1330],
     [date |-> "2025-11-04", start_time |-> 900, end_time |-> "09:30"]}

DetailSelections == {"0", "1", "2", "9", "abc"}

DetailExtracted ==
    {NoExtracted} \cup
    {With(NoExtracted, "reason", v) : v \in DetailReasons} \cup
    {With(NoExtracted, "appointment_type", v) : v \in DetailTypes} \cup
    {With(NoExtracted, "date", v) : v \in DetailDates} \cup
    {With(NoExtracted, "time_preference", v) : v \in DetailTimes} \cup
    {With(NoExtracted, "specific_slot", v) : v \in DetailSlots} \cup
    {With(NoExtracted, "slot_selection", v) : v \in DetailSelections} \cup
    {[NoExtracted EXCEPT !.time_preference = "Morning", !.slot_selection = "9"],
     [NoExtracted EXCEPT !.specific_slot = [date |-> "2025-11-04", start_time |-> 1000],
                         !.slot_selection = "1"],
     [NoExtracted EXCEPT !.name = "Ann", !.email = "ann@x.org", !.phone = "555-0001"],
     [NoExtracted EXCEPT !.appointment_type = "general_consultation",
                         !.name = "Ann", !.email = "ann@x.org", !.phone = "555-0001",
                         !.specific_slot = [date |-> "2025-11-04", start_time |-> 900]]}

DetailReplies ==
    {[parses |-> TRUE, extracted |-> e, next_action |-> a, ready_to_book |-> r] :
        e \in DetailExtracted, a \in NextActions, r \in BOOLEAN}

InitDetails ==
    /\ SCHEDULE_DATA \in {SmallTable, BusyTable}
    /\ sessions = << >>
    /\ bookings = << >>
    /\ uuid = 1
    /\ request = [op |-> "start"]
    /\ response = [status |-> "start"]
    /\ inflight = << >>

DetailChat ==
    /\ StoredMessages + 2 =< MaxDetailMessages
    /\ \E reply \in DetailReplies : chat(DetailSession, "hello", reply)
    /\ UNCHANGED inflight

NextDetails == DetailChat

SpecDetails == InitDetails /\ [][NextDetails]_vars

(***************************************************************************)
(* Slot selection claims (checked under SpecDetails)                       *)
(***************************************************************************)
\* the session of the step's chat request as the restart check leaves it
Checked ==
    LET sid == request'.session_id
        created == IF sid \in DOMAIN sessions THEN sessions[sid]
                   ELSE ConversationState(sid)
    IN IF RestartRequested(created, request'.message) THEN RestartSession(created)
       ELSE created

\* the session after the step's chat request
After == sessions'[request'.session_id]

\* the slot finder's list for what the session stores after the step
StoredList ==
    get_available_slots(After.booking_details.appointment_type,
                        After.booking_details.preferred_date,
                        After.booking_details.preferred_time)

\* the step's slot_selection, read as a number, is a 1-based index into the list
SelectionInRange ==
    /\ IsInt(StepExtracted.slot_selection)
    /\ 1 =< IntOf(StepExtracted.slot_selection)
    /\ IntOf(StepExtracted.slot_selection) =< Len(StoredList)

\* the phase the merge of reason, type and time preference leaves
NudgedPhase(old, extracted) ==
    IF Truthy(extracted.time_preference) THEN SHOWING_SLOTS
    ELSE IF Truthy(extracted.appointment_type) THEN UNDERSTANDING
    ELSE IF Truthy(extracted.reason) /\ ~Truthy(old.booking_details.reason)
         THEN SELECTING_TYPE
    ELSE old.phase

\* the phase is p, or complete where the step wrote a booking
PhaseIs(p) == After.phase = p \/ (bookings' # bookings /\ After.phase = COMPLETE)

FinalizeFailed ==
    /\ analyze_intent(request'.reply).ready_to_book
    /\ GateHolds(After)
    /\ ~({"day", "date", "start_time"} \subseteq DOMAIN After.booking_details.selected_slot)

C15_WitnessIgnored ==
    /\ request.op = "chat"
    /\ request.reply.extracted.slot_selection = "9"
    /\ request.reply.extracted.time_preference = None
    /\ SCHEDULE_DATA = SmallTable
    /\ sessions[request.session_id].booking_details.appointment_type
           = "general_consultation"
    /\ DOMAIN sessions[request.session_id].booking_details.selected_slot # {}
    /\ sessions[request.session_id].booking_details.selected_slot.start_time = 1400
    /\ sessions[request.session_id].phase = COLLECTING_INFO
    /\ response.status = "ok"

\* the step's oracle result gives a {date, start_time} pair without end time
ExplicitPair ==
    /\ {"date", "start_time"} \subseteq DOMAIN StepExtracted.specific_slot
    /\ "end_time" \notin DOMAIN StepExtracted.specific_slot

\* the table positions of the available slots of type t with the date and
\* start time of the pair
TableMatches(t, pair) ==
    {p \in Selected(t, pair.date, None) :
        SCHEDULE_DATA[t].schedule[p[1]].slots[p[2]].start_time = pair.start_time}

\* the table slot at position p as a slot record
TableSlot(t, p) ==
    LET dd == SCHEDULE_DATA[t].schedule[p[1]]
        sl == dd.slots[p[2]]
    IN [day |-> dd.day, date |-> dd.date, start_time |-> sl.start_time,
        end_time |-> sl.end_time, duration |-> SCHEDULE_DATA[t].duration_minutes]

\* C16 as stated: when the oracle extracts a {date, start_time} pair without
\* end time and the table holds an available slot with that date and start
\* time for the session's appointment type, the slot stored is that table
\* slot, with end time and duration.
C16_ExplicitSelection_Original ==
    [][(ChatStep /\ ExplicitPair) =>
          LET t == After.booking_details.appointment_type
              M == TableMatches(t, StepExtracted.specific_slot)
          IN M # {} =>
                \E p \in M : After.booking_details.selected_slot = TableSlot(t, p)]_vars

\* C16 within the slot finder's cap: when the pair's slot is among the first
\* ten available slots of its date for the session's appointment type, the
\* slot stored is the first such table slot, with end time and duration.
C16_ExplicitSelectionWithinCap ==
    [][(ChatStep /\ ExplicitPair) =>
          LET t == After.booking_details.appointment_type
              pair == StepExtracted.specific_slot
              M == {p \in TableMatches(t, pair) :
                       Rank(p, Selected(t, pair.date, None)) =< 10}
          IN M # {} =>
                \E p \in M :
                    /\ \A q \in M : ~Before(q, p)
                    /\ After.booking_details.selected_slot = TableSlot(t, p)]_vars

\* C16 witness: the pair named the tenth available slot of the long day and
\* the session stores it with day, end time and duration
C16_Witness ==
    /\ request.op = "chat"
    /\ request.reply.extracted.specific_slot = [date |-> "2025-11-06", start_time |-> 1300]
    /\ sessions[request.session_id].booking_details.selected_slot
           = [day |-> "thursday", date |-> "2025-11-06", start_time |-> 1300,
              end_time |-> "13:30", duration |-> 30]

\* the lookup of the step's explicit selection finds no slot: no appointment
\* type is stored, or the list for the pair's date has no slot with its date
\* and start time
NoMatchFound ==
    LET t == After.booking_details.appointment_type
        pair == StepExtracted.specific_slot
        available == get_available_slots(t, pair.date, None)
    IN \/ ~Truthy(t)
       \/ \A i \in DOMAIN available :
              ~(available[i].date = pair.date /\ available[i].start_time = pair.start_time)

\* the session's stored slot has no end time
LacksEndTime(state) ==
    /\ DOMAIN state.booking_details.selected_slot # {}
    /\ "end_time" \notin DOMAIN state.booking_details.selected_slot

\* the step's ordinal selection put a slot of the list in the session
OrdinalReplaced ==
    /\ DOMAIN StepExtracted.specific_slot = {}
    /\ Truthy(StepExtracted.slot_selection)
    /\ SelectionInRange

\* C17 as stated: an explicit selection that finds no table slot stores the
\* slot without end time and sets the phase to collecting_info; while the
\* session holds such a slot no chat request writes a booking, whatever the
\* oracle returns, unless an ordinal selection replaces the slot.
C17_NoMatchBlocksFinalize_Original ==
    [][/\ (ChatStep /\ ExplicitPair /\ NoMatchFound) =>
              /\ After.booking_details.selected_slot = StepExtracted.specific_slot
              /\ After.phase = COLLECTING_INFO
       /\ (ChatOnSession /\ LacksEndTime(sessions[request'.session_id])
           /\ ~OrdinalReplaced) =>
              bookings' = bookings]_vars

\* C17 amended: an explicit selection that finds no table slot stores the slot
\* without end time and sets the phase to collecting_info; while the session
\* holds such a slot a chat request writes a booking only if the same request
\* replaces the slot by one with an end time, through an ordinal selection or
\* through another explicit selection.
C17_NoMatchBlocksFinalize ==
    [][/\ (ChatStep /\ ExplicitPair /\ NoMatchFound) =>
              /\ After.booking_details.selected_slot = StepExtracted.specific_slot
              /\ After.phase = COLLECTING_INFO
              /\ bookings' = bookings
       /\ (ChatOnSession /\ LacksEndTime(sessions[request'.session_id])
           /\ bookings' # bookings) =>
              /\ OrdinalReplaced \/ DOMAIN StepExtracted.specific_slot # {}
              /\ After.booking_details.selected_slot
                     # sessions[request'.session_id].booking_details.selected_slot
              /\ "end_time" \in DOMAIN After.booking_details.selected_slot]_vars

\* C17 witness: the oracle signalled readiness on a session that holds the
\* three contact fields and a slot stored without end time by an explicit
\* selection, and no booking was written
C17_Witness ==
    /\ request.op = "chat"
    /\ request.reply.ready_to_book
    /\ DOMAIN request.reply.extracted.specific_slot = {}
    /\ \A f \in ContactFields :
           Truthy(sessions[request.session_id].patient_info[f])
    /\ sessions[request.session_id].booking_details.appointment_type
           = "general_consultation"
    /\ sessions[request.session_id].booking_details.selected_slot
           = [date |-> "2025-11-04", start_time |-> 1000]
    /\ sessions[request.session_id].phase = COLLECTING_INFO
    /\ response.generated
    /\ bookings = << >>

\* the step's chat request selected a slot, by explicit or by ordinal selection
SlotSelected ==
    \/ DOMAIN StepExtracted.specific_slot # {}
    \/ (Truthy(StepExtracted.slot_selection) /\ SelectionInRange)

\* the booking detail f went from empty to set in the step
NewlySet(f) ==
    /\ ~Truthy(Checked.booking_details[f])
    /\ Truthy(After.booking_details[f])

\* the step's oracle result extracts a value for a detail that is set already
ReExtracted(f, key) ==
    /\ Truthy(Checked.booking_details[f])
    /\ Truthy(StepExtracted[key])

\* C18 as stated: a chat request moves the phase to selecting_type only where
\* the reason goes from empty to set, to understanding only where the
\* appointment type does, to showing_slots only where the time preference
\* does, and to collecting_info only where a slot is selected; a request that
\* re-extracts a value for a reason, type or time preference that is set
\* changes neither the field nor, with nothing else extracted, the phase.
C18_PhaseNudges_Original ==
    [][ChatStep =>
          /\ (After.phase = SELECTING_TYPE /\ Checked.phase # SELECTING_TYPE)
                 => NewlySet("reason")
          /\ (After.phase = UNDERSTANDING /\ Checked.phase # UNDERSTANDING)
                 => NewlySet("appointment_type")
          /\ (After.phase = SHOWING_SLOTS /\ Checked.phase # SHOWING_SLOTS)
                 => NewlySet("preferred_time")
          /\ (After.phase = COLLECTING_INFO /\ Checked.phase # COLLECTING_INFO)
                 => SlotSelected
          /\ ReExtracted("reason", "reason") =>
                 After.booking_details.reason = Checked.booking_details.reason
          /\ ReExtracted("appointment_type", "appointment_type") =>
                 After.booking_details.appointment_type
                     = Checked.booking_details.appointment_type
          /\ ReExtracted("preferred_time", "time_preference") =>
                 After.booking_details.preferred_time
                     = Checked.booking_details.preferred_time
          /\ (/\ Truthy(StepExtracted.reason) => Truthy(Checked.booking_details.reason)
              /\ Truthy(StepExtracted.appointment_type)
                     => Truthy(Checked.booking_details.appointment_type)
              /\ Truthy(StepExtracted.time_preference)
                     => Truthy(Checked.booking_details.preferred_time)
              /\ ~SlotSelected)
                 => PhaseIs(Checked.phase)]_vars

\* C18 amended: a chat request moves the phase to selecting_type only where
\* the reason goes from empty to set, to understanding only where the oracle
\* extracts an appointment type, to showing_slots only where it extracts a
\* time preference, and to collecting_info only where a slot is selected; a
\* re-extracted reason changes neither the stored reason nor the phase, while
\* an extracted appointment type or time preference replaces the stored value
\* and sets the phase, whether or not a value was stored.
C18_PhaseNudges ==
    [][ChatStep =>
          /\ (After.phase = SELECTING_TYPE /\ Checked.phase # SELECTING_TYPE)
                 => NewlySet("reason")
          /\ (After.phase = UNDERSTANDING /\ Checked.phase # UNDERSTANDING)
                 => Truthy(StepExtracted.appointment_type)
          /\ (After.phase = SHOWING_SLOTS /\ Checked.phase # SHOWING_SLOTS)
                 => Truthy(StepExtracted.time_preference)
          /\ (After.phase = COLLECTING_INFO /\ Checked.phase # COLLECTING_INFO)
                 => SlotSelected
          /\ ReExtracted("reason", "reason") =>
                 After.booking_details.reason = Checked.booking_details.reason
          /\ (/\ ReExtracted("reason", "reason")
              /\ ~Truthy(StepExtracted.appointment_type)
              /\ ~Truthy(StepExtracted.time_preference)
              /\ ~SlotSelected)
                 => PhaseIs(Checked.phase)
          /\ Truthy(StepExtracted.appointment_type) =>
                 /\ After.booking_details.appointment_type
                        = StepExtracted.appointment_type
                 /\ (~Truthy(StepExtracted.time_preference) /\ ~SlotSelected)
                        => PhaseIs(UNDERSTANDING)
          /\ Truthy(StepExtracted.time_preference) =>
                 /\ After.booking_details.preferred_time
                        = StepExtracted.time_preference
                 /\ ~SlotSelected => PhaseIs(SHOWING_SLOTS)]_vars

\* C18 witness: the oracle extracted the reason "cough" for a session with the
\* reason "headache" and a type: reason and phase stayed
C18_Witness ==
    /\ request.op = "chat"
    /\ request.reply.extracted.reason = "cough"
    /\ sessions[request.session_id].booking_details.reason = "headache"
    /\ sessions[request.session_id].booking_details.appointment_type = "followup"
    /\ sessions[request.session_id].phase = UNDERSTANDING

\* C18 witness of the replaced type: the oracle extracted general_consultation
\* for a session that had selected a follow-up slot: the type is replaced and
\* the phase is understanding
C18_WitnessReplaced ==
    /\ request.op = "chat"
    /\ request.reply.extracted.appointment_type = "general_consultation"
    /\ "duration" \in DOMAIN sessions[request.session_id].booking_details.selected_slot
    /\ sessions[request.session_id].booking_details.selected_slot.duration = 15
    /\ sessions[request.session_id].booking_details.appointment_type
           = "general_consultation"
    /\ sessions[request.session_id].phase = UNDERSTANDING

(***************************************************************************)
(* Message history (checked under Spec)                                    *)
(***************************************************************************)
\* the messages session sid holds; a session that does not exist holds none
MessagesOf(store, sid) ==
    IF sid \in DOMAIN store THEN store[sid].messages ELSE << >>

\* C19: the message history of a session is append-only: no request of any
\* kind removes the session or removes, reorders or rewrites a message it
\* holds, and every chat request that completes appends exactly the user's
\* message followed by exactly one assistant message.
C19_HistoryAppendOnly ==
    [][/\ \A sid \in DOMAIN sessions :
              /\ sid \in DOMAIN sessions'
              /\ IsPrefix(sessions[sid].messages, sessions'[sid].messages)
       /\ (ChatStep /\ response'.status = "ok") =>
              LET sid == request'.session_id
                  old == MessagesOf(sessions, sid)
                  new == MessagesOf(sessions', sid)
                  n == Len(old)
              IN /\ Len(new) = n + 2
                 /\ new[n + 1] = [role |-> "user", content |-> request'.message]
                 /\ new[n + 2].role = "assistant"]_vars

\* C19 witness: a chat request restarted a completed session and left it with
\* four messages, user and assistant in turn
C19_Witness ==
    /\ request.op = "chat"
    /\ response.status = "ok"
    /\ response.restarted
    /\ LET m == sessions[request.session_id].messages
       IN /\ Len(m) = 4
          /\ m[1].role = "user" /\ m[2].role = "assistant"
          /\ m[3].role = "user" /\ m[4].role = "assistant"

\* C19 witness of the reset: reset-session left a session its two messages
C19_WitnessReset ==
    /\ request.op = "reset_session"
    /\ response.status = "reset"
    /\ Len(sessions[request.session_id].messages) = 2
    /\ sessions[request.session_id].phase = GREETING

(***************************************************************************)
(* Concurrent chat requests for one session.  The handlers are coroutines  *)
(* of one event loop (uvicorn.run(app), one process); chat holds no await, *)
(* so a handler that has started runs to its return before the loop takes  *)
(* up another request.  inflight holds the requests the server has         *)
(* accepted, each with the oracle's reply to it; the loop takes them up in *)
(* either order.                                                           *)
(***************************************************************************)
ConcurrentSession == "s1"

RequestIds == {1, 2}

ConcurrentExtracted ==
    {With(NoExtracted, "reason", "headache"),
     With(NoExtracted, "appointment_type", "general_consultation"),
     With(NoExtracted, "appointment_type", "followup"),
     With(NoExtracted, "name", "Ann"),
     With(NoExtracted, "name", "Bob"),
     With(NoExtracted, "time_preference", "afternoon"),
     With(NoExtracted, "slot_selection", "1"),
     [NoExtracted EXCEPT !.appointment_type = "general_consultation",
                         !.name = "Ann", !.email = "ann@x.org", !.phone = "555-0001",
                         !.specific_slot = [date |-> "2025-11-04", start_time |-> 900]]}

ConcurrentReplies ==
    {[parses |-> TRUE, extracted |-> e, next_action |-> "show_slots",
      ready_to_book |-> TRUE] : e \in ConcurrentExtracted}
    \cup {[parses |-> TRUE, extracted |-> e, next_action |-> "show_slots",
            ready_to_book |-> FALSE] :
               e \in {x \in ConcurrentExtracted : DOMAIN x.specific_slot # {}}}
    \cup {[parses |-> FALSE]}

InitConcurrent ==
    /\ SCHEDULE_DATA = SmallTable
    /\ sessions = << >>
    /\ bookings = << >>
    /\ uuid = 1
    /\ request = [op |-> "start"]
    /\ response = [status |-> "start"]
    /\ inflight = << >>

\* two chat requests for the session reach the server before either is handled
AcceptRequests ==
    /\ inflight = << >>
    /\ inflight' \in [RequestIds -> [message : Messages, reply : ConcurrentReplies,
                                     handled : {FALSE}]]
    /\ UNCHANGED <<SCHEDULE_DATA, sessions, bookings, uuid, request, response>>

\* the event loop runs the handler of one accepted request, from its first
\* line to its return
HandleRequest ==
    \E i \in DOMAIN inflight :
        /\ ~inflight[i].handled
        /\ chat(ConcurrentSession, inflight[i].message, inflight[i].reply)
        /\ inflight' = [inflight EXCEPT ![i].handled = TRUE]

NextConcurrent == AcceptRequests \/ HandleRequest

\* the loop does not leave an accepted request unhandled
SpecConcurrent ==
    InitConcurrent /\ [][NextConcurrent]_vars /\ WF_vars(NextConcurrent)

\* the session one chat request leaves when it runs alone on the session
\* state created
ChatOutcome(created, message, reply) ==
    LET intent_analysis == analyze_intent(reply)
        checked == IF RestartRequested(created, message) THEN RestartSession(created)
                   ELSE created
        state == MergeExtracted(AddMessage(checked, "user", message),
                                intent_analysis.extracted)
        slot == state.booking_details.selected_slot
    IN IF ~CanBook(state, intent_analysis)
       THEN AddMessage(state, "assistant", "reply")
       ELSE IF ~({"date", "start_time"} \subseteq DOMAIN slot) THEN state
       ELSE IF "day" \notin DOMAIN slot THEN [state EXCEPT !.phase = COMPLETE]
       ELSE AddMessage([state EXCEPT !.phase = COMPLETE], "assistant", "confirmation")

\* the session the two requests leave when request i is handled, from its
\* first line to its last, before request j
InOrder(i, j) ==
    ChatOutcome(ChatOutcome(ConversationState(ConcurrentSession),
                            inflight[i].message, inflight[i].reply),
                inflight[j].message, inflight[j].reply)

AllHandled == inflight # << >> /\ \A i \in DOMAIN inflight : inflight[i].handled

MatchesSequentialOrder ==
    sessions[ConcurrentSession] \in {InOrder(1, 2), InOrder(2, 1)}

Written == {bookings'[id].data : id \in DOMAIN bookings' \ DOMAIN bookings}

\* the record carries the contact fields and the slot of the session
FromSession(b, state) ==
    /\ b.appointment_type = state.booking_details.appointment_type
    /\ b.patient = state.patient_info
    /\ b.date = state.booking_details.selected_slot.date
    /\ b.start_time = state.booking_details.selected_slot.start_time
    /\ b.end_time = state.booking_details.selected_slot.end_time

\* C21 as stated: every booking record a chat request writes carries the
\* session's appointment type with the name and the duration of that type's
\* entry in the type table, the session's patient info and the date, start
\* time and end time of the session's selected slot; none is written with a
\* missing type name or duration.
C21_BookingRecord ==
    [][ChatStep =>
          \A b \in Written :
              /\ FromSession(b, sessions'[request'.session_id])
              /\ b.appointment_type \in DOMAIN APPOINTMENT_TYPES
              /\ b.appointment_type_name = APPOINTMENT_TYPES[b.appointment_type].name
              /\ b.duration = APPOINTMENT_TYPES[b.appointment_type].duration]_vars

\* what holds of every record: the fields are the session's, and name and
\* duration are those of the type's entry where the table has one and None
\* where it has none
C21_BookingRecordAsLookedUp ==
    [][ChatStep =>
          \A b \in Written :
              /\ FromSession(b, sessions'[request'.session_id])
              /\ b.appointment_type_name = TypeInfo(b.appointment_type, "name")
              /\ b.duration = TypeInfo(b.appointment_type, "duration")]_vars

(***************************************************************************)
(* The schedule table under the handlers: one session, the replies of the  *)
(* concurrent requests (among them one that books at once), and the        *)
(* select-slot, get-booking and reset-session requests, on two tables.     *)
(***************************************************************************)
InitSchedule ==
    /\ SCHEDULE_DATA \in {SmallTable, BusyTable}
    /\ sessions = << >>
    /\ bookings = << >>
    /\ uuid = 1
    /\ request = [op |-> "start"]
    /\ response = [status |-> "start"]
    /\ inflight = << >>

ScheduleChat ==
    /\ StoredMessages + 2 =< MaxMessages
    /\ \E message \in Messages, reply \in ConcurrentReplies :
           chat(ConcurrentSession, message, reply)
    /\ UNCHANGED inflight

NextSchedule == ScheduleChat \/ SelectSlot \/ GetBooking \/ ResetSessionRequest

SpecSchedule == InitSchedule /\ [][NextSchedule]_vars

\* arguments of the slot finder: each type of the table, without filters and
\* with a date and a time of day
FinderTypes == DOMAIN SCHEDULE_DATA

FinderInputs ==
    {<<t, None, None>> : t \in FinderTypes}
    \cup {<<t, "2025-11-04", "afternoon">> : t \in FinderTypes}

\* the slot finder lists the slot of booking record b for the type t
Listed(t, b) ==
    LET slots == get_available_slots(t, b.date, None)
    IN \E i \in 1..Len(slots) : slots[i].start_time = b.start_time

\* C22: no request changes the schedule table: after any chat, select-slot,
\* get-booking or reset-session request, with or without a booking written,
\* the slot finder returns for the same type, date and time preference what
\* it returned before, and a slot it listed before a request booked it is
\* listed after.
C22_ScheduleUnchanged ==
    [][/\ SCHEDULE_DATA' = SCHEDULE_DATA
       /\ \A a \in FinderInputs :
              get_available_slots(a[1], a[2], a[3])'
                  = get_available_slots(a[1], a[2], a[3])
       /\ \A b \in Written, t \in FinderTypes : Listed(t, b) => Listed(t, b)']_vars

\* C22 witness: a booking was written for a slot of the table, and the slot
\* finder lists the slot
C22_Witness ==
    /\ request.op = "chat"
    /\ response.status = "ok"
    /\ response.booking # 0
    /\ Listed(bookings[response.booking].data.appointment_type,
              bookings[response.booking].data)

(***************************************************************************)
(* One booking per cycle (checked under Spec)                              *)
(***************************************************************************)
\* C23: a session produces at most one booking per booking cycle: a chat
\* request on a session that a finalize has left in phase complete, and that
\* no restart keyword, reset-session or other request has taken out of it,
\* writes no further ledger record.
C23_OneBookingPerCycle ==
    [][(ChatOnSession
        /\ sessions[request'.session_id].phase = COMPLETE
        /\ ~HasRestartWord(request'.message)) =>
          bookings' = bookings]_vars

====
